---- MODULE Spec2Model ----
(***************************************************************************)
(* The contact-service client (src/src/services/api.ts) and the page that  *)
(* calls it (src/src/pages/IdentifyPage.tsx), as a state machine.          *)
(*                                                                         *)
(* Every call of checkHealth / identifyContact is a record of `calls`: the *)
(* request it put on the wire, the await it is suspended at (pc), what the *)
(* transport answered and the promise it returned (outcome).  The          *)
(* transport (fetch, the network and the remote service) is the            *)
(* environment: it settles each pending await with any result it can       *)
(* produce.  A handler runs to its next await in one step, as on the       *)
(* single-threaded event loop.                                             *)
(***************************************************************************)
EXTENDS Integers, Sequences, FiniteSets, TLC

VARIABLES calls, lastSettled, form, errors, response, isLoading, isHealthy,
          toast, mounts

vars == <<calls, lastSettled, form, errors, response, isLoading, isHealthy,
          toast, mounts>>
page == <<lastSettled, form, errors, response, isLoading, isHealthy, toast,
          mounts>>

(* ------------------------------ bounds --------------------------------- *)

\* Calls of the client made in one behaviour.
MaxCalls == 2
\* Times the page's mount effect runs (StrictMode runs it again in development).
MaxMounts == 1

(* ------------------------------ values --------------------------------- *)

BASE_URL == "https://aryan-bitespeed.onrender.com/api"

\* An absent (undefined) optional field.
Undefined == "<undefined>"
\* JavaScript's null, and a boolean held where null can be held too.
Null == [type |-> "null"]
Bool(b) == [type |-> "boolean", value |-> b]
\* No call handled yet, no toast shown yet.
NoCall == [op |-> "none"]
NoToast == "<none>"

\* The field values a caller passes, and the ones the user can type.
Emails == {Undefined, "a@x.com"}
Phones == {Undefined, "123"}
TypedEmails == {"", "a@x.com"}
TypedPhones == {"", "123"}

IdentifyRequest == [email : Emails, phoneNumber : Phones]

\* HTTP statuses the service answers with.
Statuses == {200, 201, 204, 299, 300, 400, 404, 500}

\* What fetch rejects with when the request never gets an answer.
NetworkError == [name |-> "TypeError", message |-> "Failed to fetch"]

\* The results of awaiting fetch(): a Response (its status line) or a rejection.
FetchResults ==
    {[kind |-> "response", status |-> s, error |-> Null] : s \in Statuses}
        \cup {[kind |-> "rejected", status |-> 0, error |-> NetworkError]}

NoFetchResult == [kind |-> "none", status |-> 0, error |-> Null]

\* Response bodies the service sends: a ContactResponse, JSON of another
\* shape, and text that is not JSON.
ContactText ==
    "{\"contact\":{\"primaryContactId\":1,\"emails\":[\"a@x.com\"],\"phoneNumbers\":[\"123\"],\"secondaryContactIds\":[]}}"
OtherText == "{\"status\":\"ok\"}"
MalformedText == "<html>Bad Gateway</html>"

BodyTexts == {ContactText, OtherText, MalformedText}

NoBody == "<unread>"

Pending == [state |-> "pending"]

(* --------------------------- pure helpers ------------------------------ *)

\* JSON.parse as response.json() applies it to the body text.
JSONParse(text) ==
    CASE text = ContactText ->
            [ok |-> TRUE,
             value |-> [contact |-> [primaryContactId |-> 1,
                                     emails |-> <<"a@x.com">>,
                                     phoneNumbers |-> <<"123">>,
                                     secondaryContactIds |-> <<>>]]]
      [] text = OtherText ->
            [ok |-> TRUE, value |-> [status |-> "ok"]]
      [] OTHER ->
            [ok |-> FALSE,
             error |-> [name |-> "SyntaxError", message |-> "Unexpected token <"]]

\* Mutant: a property whose value is undefined is written as null.
JSONStringifyWritesUndefined(data) ==
    LET member(k, v) ==
            IF v = Undefined THEN "\"" \o k \o "\":null"
                             ELSE "\"" \o k \o "\":\"" \o v \o "\""
    IN  "{" \o member("email", data.email) \o ","
            \o member("phoneNumber", data.phoneNumber) \o "}"

\* JSON.stringify of an IdentifyRequest: a property whose value is undefined
\* is left out, the others are written in declaration order.
JSONStringify(data) ==
    LET member(k, v) == "\"" \o k \o "\":\"" \o v \o "\""
        e == IF data.email # Undefined
                THEN <<member("email", data.email)>> ELSE <<>>
        p == IF data.phoneNumber # Undefined
                THEN <<member("phoneNumber", data.phoneNumber)>> ELSE <<>>
        ms == e \o p
    IN  CASE Len(ms) = 0 -> "{}"
          [] Len(ms) = 1 -> "{" \o ms[1] \o "}"
          [] OTHER       -> "{" \o ms[1] \o "," \o ms[2] \o "}"

\* Mutant: the success check of checkHealth, 200 or 201 only.
ResponseOkOnly200Or201(status) == status = 200 \/ status = 201

\* Mutant: everything below 400 counts as success.
ResponseOkBelow400(status) == status >= 200 /\ status < 400

\* Response.ok
ResponseOk(status) == status >= 200 /\ status <= 299

\* new Error(`HTTP error! status: ${response.status}`)
HttpError(status) ==
    [name |-> "Error", message |-> "HTTP error! status: " \o ToString(status)]

\* Mutant: a test for undefined only, so the empty string counts as present.
TruthyIfDefined(v) == v # Undefined

\* JavaScript truthiness of an optional string field.
Truthy(v) == v # Undefined /\ v # ""

\* The calls that have settled and whose promise the caller still holds.
Settled == {i \in 1..Len(calls) : calls[i].pc = "done"}

(* ------------------------------ client --------------------------------- *)

\* checkHealth up to its await of fetch.
checkHealth(caller) ==
    [op |-> "checkHealth", caller |-> caller,
     data |-> [email |-> Undefined, phoneNumber |-> Undefined],
     request |-> [method |-> "GET", url |-> BASE_URL \o "/health",
                  contentType |-> "application/json", body |-> Undefined],
     fetches |-> 1, pc |-> "fetch", fetched |-> NoFetchResult, body |-> NoBody,
     outcome |-> Pending, settledBefore |-> Settled]

\* Mutant: the success check is response.ok.
checkHealthResumeAny2xx(c, r) ==
    [c EXCEPT !.pc = "done", !.fetched = r,
              !.outcome = [state |-> "fulfilled",
                           value |-> r.kind = "response" /\ ResponseOk(r.status)]]

\* Mutant: no try/catch around the fetch.
checkHealthResumeNoCatch(c, r) ==
    [c EXCEPT !.pc = "done", !.fetched = r,
              !.outcome =
                 IF r.kind = "response"
                    THEN [state |-> "fulfilled",
                          value |-> (r.status = 200 \/ r.status = 201)]
                    ELSE [state |-> "rejected", reason |-> r.error]]

\* Mutant: a module-level flag lets only the first check report healthy.
checkHealthResumeOnce(c, r) ==
    [c EXCEPT !.pc = "done", !.fetched = r,
              !.outcome =
                 [state |-> "fulfilled",
                  value |-> /\ r.kind = "response"
                            /\ (r.status = 200 \/ r.status = 201)
                            /\ ~\E k \in Settled : calls[k].op = "checkHealth"]]

\* checkHealth from its await of fetch to its return.
checkHealthResume(c, r) ==
    [c EXCEPT !.pc = "done", !.fetched = r,
              !.outcome =
                 IF r.kind = "response"
                    THEN [state |-> "fulfilled",
                          value |-> (r.status = 200 \/ r.status = 201)]
                    ELSE [state |-> "fulfilled", value |-> FALSE]]

\* identifyContact up to its await of fetch.
identifyContact(caller, data) ==
    [op |-> "identifyContact", caller |-> caller, data |-> data,
     request |-> [method |-> "POST", url |-> BASE_URL \o "/identify",
                  contentType |-> "application/json",
                  body |-> JSONStringify(data)],
     fetches |-> 1, pc |-> "fetch", fetched |-> NoFetchResult, body |-> NoBody,
     outcome |-> Pending, settledBefore |-> Settled]

\* Mutant: the catch block returns a fallback value as checkHealth's does.
identifyContactResumeSwallows(c, r) ==
    IF r.kind = "rejected"
       THEN [c EXCEPT !.pc = "done", !.fetched = r,
                      !.outcome = [state |-> "fulfilled", value |-> Null]]
       ELSE IF ~ResponseOk(r.status)
               THEN [c EXCEPT !.pc = "done", !.fetched = r,
                              !.outcome = [state |-> "rejected",
                                           reason |-> HttpError(r.status)]]
               ELSE [c EXCEPT !.pc = "json", !.fetched = r]

\* identifyContact from its await of fetch to its await of response.json(),
\* or to the throw that ends it.
identifyContactResume(c, r) ==
    IF r.kind = "rejected"
       THEN [c EXCEPT !.pc = "done", !.fetched = r,
                      !.outcome = [state |-> "rejected", reason |-> r.error]]
       ELSE IF ~ResponseOk(r.status)
               THEN [c EXCEPT !.pc = "done", !.fetched = r,
                              !.outcome = [state |-> "rejected",
                                           reason |-> HttpError(r.status)]]
               ELSE [c EXCEPT !.pc = "json", !.fetched = r]

\* identifyContact from its await of response.json() to its return or throw.
identifyContactReturn(c, text) ==
    LET parsed == JSONParse(text)
    IN  [c EXCEPT !.pc = "done", !.body = text,
                  !.outcome =
                     IF parsed.ok
                        THEN [state |-> "fulfilled", value |-> parsed.value]
                        ELSE [state |-> "rejected", reason |-> parsed.error]]

(* ------------------------------- page ---------------------------------- *)

\* formSchema: both fields optional, refined by data.email || data.phoneNumber.
formSchema(data) == Truthy(data.email) \/ Truthy(data.phoneNumber)

\* performHealthCheck after its await of checkHealth.
performHealthCheckResume(outcome) ==
    /\ isHealthy' = Bool(IF outcome.state = "fulfilled" THEN outcome.value ELSE FALSE)
    /\ toast' = IF outcome.state = "fulfilled" /\ outcome.value
                   THEN "Backend connected" ELSE "Backend disconnected"
    /\ UNCHANGED <<response, isLoading>>

\* onSubmit after its await of identifyContact: try / catch / finally.
onSubmitResume(outcome) ==
    /\ response' = IF outcome.state = "fulfilled" THEN outcome.value ELSE Null
    /\ toast' = IF outcome.state = "fulfilled"
                   THEN "Contact identified" ELSE "Failed to identify contact"
    /\ isLoading' = FALSE
    /\ UNCHANGED isHealthy

\* Call i has run to c.  Once it has settled its caller resumes: the page
\* handles the outcome and drops the promise (lastSettled remembers the call
\* it handled last), any other caller keeps the promise.
CallerResumes(i, c) ==
    /\ IF c.caller = "page" /\ c.pc = "done"
          THEN /\ calls' = [j \in 1..(Len(calls) - 1) |->
                               IF j < i THEN calls[j] ELSE calls[j + 1]]
               /\ lastSettled' = c
               /\ IF c.op = "checkHealth"
                     THEN performHealthCheckResume(c.outcome)
                     ELSE onSubmitResume(c.outcome)
          ELSE /\ calls' = [calls EXCEPT ![i] = c]
               /\ UNCHANGED <<lastSettled, response, isLoading, isHealthy, toast>>
    /\ UNCHANGED <<form, errors, mounts>>

(* ------------------------------ actions -------------------------------- *)

Init ==
    /\ calls = <<>>
    /\ lastSettled = NoCall
    /\ form = [email |-> Undefined, phoneNumber |-> Undefined]
    /\ errors = FALSE
    /\ response = Null
    /\ isLoading = FALSE
    /\ isHealthy = Null
    /\ toast = NoToast
    /\ mounts = 0

\* A caller other than the page calls checkHealth().
CallCheckHealth ==
    /\ Len(calls) < MaxCalls
    /\ calls' = Append(calls, checkHealth("test"))
    /\ UNCHANGED page

\* A caller other than the page calls identifyContact(data).
CallIdentifyContact ==
    \E data \in IdentifyRequest :
        /\ Len(calls) < MaxCalls
        /\ calls' = Append(calls, identifyContact("test", data))
        /\ UNCHANGED page

\* Mutant: the client queues its requests, so a fetch settles only after
\* every earlier call has.
FetchSettlesInOrder(i, r) ==
    /\ calls[i].pc = "fetch"
    /\ \A j \in 1..(i - 1) : calls[j].pc = "done"
    /\ LET c == IF calls[i].op = "checkHealth"
                   THEN checkHealthResume(calls[i], r)
                   ELSE identifyContactResume(calls[i], r)
       IN  CallerResumes(i, c)

\* The transport settles the fetch of call i.
FetchSettles(i, r) ==
    /\ calls[i].pc = "fetch"
    /\ LET c == IF calls[i].op = "checkHealth"
                   THEN checkHealthResume(calls[i], r)
                   ELSE identifyContactResume(calls[i], r)
       IN  CallerResumes(i, c)

\* The transport delivers the body of call i's response and json() settles.
JsonSettles(i, text) ==
    /\ calls[i].pc = "json"
    /\ LET c == identifyContactReturn(calls[i], text)
       IN  CallerResumes(i, c)

Transport ==
    \E i \in 1..Len(calls) :
        \/ \E r \in FetchResults : FetchSettles(i, r)
        \/ \E text \in BodyTexts : JsonSettles(i, text)

\* The mount effect: performHealthCheck up to its await of checkHealth.
performHealthCheck ==
    /\ mounts < MaxMounts
    /\ mounts' = mounts + 1
    /\ calls' = Append(calls, checkHealth("page"))
    /\ UNCHANGED <<lastSettled, form, errors, response, isLoading, isHealthy, toast>>

\* The user edits a field of the form.
TypeEmail ==
    \E v \in TypedEmails :
        /\ form' = [form EXCEPT !.email = v]
        /\ UNCHANGED <<calls, lastSettled, errors, response, isLoading, isHealthy,
                       toast, mounts>>

TypePhone ==
    \E v \in TypedPhones :
        /\ form' = [form EXCEPT !.phoneNumber = v]
        /\ UNCHANGED <<calls, lastSettled, errors, response, isLoading, isHealthy,
                       toast, mounts>>

\* onSubmit up to its await of identifyContact.
onSubmit(data) ==
    IF ~Truthy(data.email) /\ ~Truthy(data.phoneNumber)
       THEN /\ toast' = "Please provide at least one field"
            /\ UNCHANGED <<calls, isLoading>>
       ELSE /\ isLoading' = TRUE
            /\ calls' = Append(calls, identifyContact("page", data))
            /\ UNCHANGED toast

\* Mutant: the submit button is not disabled while isLoading.
SubmitWhileLoading ==
    /\ IF formSchema(form)
          THEN /\ errors' = FALSE
               /\ onSubmit(form)
          ELSE /\ errors' = TRUE
               /\ UNCHANGED <<calls, isLoading, toast>>
    /\ UNCHANGED <<lastSettled, form, response, isHealthy, mounts>>

\* The submit button (disabled while isLoading): handleSubmit(onSubmit)
\* validates the form values against formSchema and calls onSubmit if valid.
Submit ==
    /\ ~isLoading
    /\ IF formSchema(form)
          THEN /\ errors' = FALSE
               /\ onSubmit(form)
          ELSE /\ errors' = TRUE
               /\ UNCHANGED <<calls, isLoading, toast>>
    /\ UNCHANGED <<lastSettled, form, response, isHealthy, mounts>>

\* The Clear button.
handleClear ==
    /\ form' = [email |-> Undefined, phoneNumber |-> Undefined]
    /\ errors' = FALSE
    /\ response' = Null
    /\ UNCHANGED <<calls, lastSettled, isLoading, isHealthy, toast, mounts>>

(* ------------------------------ claims --------------------------------- *)

HealthCalls == {i \in 1..Len(calls) : calls[i].op = "checkHealth"}
IdentifyCalls == {i \in 1..Len(calls) : calls[i].op = "identifyContact"}
Done(i) == calls[i].pc = "done"
Is2xx(status) == status \in 200..299

\* C1: a settled checkHealth() call returned true exactly when fetch delivered
\* a response of status 200 or 201, and false for every other status and for
\* a rejected fetch.
C1_HealthyIff200Or201 ==
    \A i \in HealthCalls :
        Done(i) =>
            /\ calls[i].outcome.state = "fulfilled"
            /\ calls[i].outcome.value
                  <=> (/\ calls[i].fetched.kind = "response"
                       /\ calls[i].fetched.status \in {200, 201})

\* One call answered 201 returned true and one answered 204 returned false.
C1_Witness ==
    \E i, j \in HealthCalls :
        /\ Done(i) /\ calls[i].fetched.status = 201 /\ calls[i].outcome.value
        /\ Done(j) /\ calls[j].fetched.status = 204 /\ ~calls[j].outcome.value

\* C2: checkHealth() never rejects, whatever fetch does: its promise is
\* pending until fetch settles and then fulfilled with a boolean.
C2_HealthNeverRejects ==
    \A i \in HealthCalls :
        /\ calls[i].outcome.state # "rejected"
        /\ Done(i) <=> calls[i].fetched.kind # "none"
        /\ Done(i) => /\ calls[i].outcome.state = "fulfilled"
                      /\ calls[i].outcome.value \in BOOLEAN

\* A checkHealth() whose fetch rejected has returned false.
C2_Witness ==
    \E i \in HealthCalls :
        /\ calls[i].fetched.kind = "rejected"
        /\ calls[i].outcome = [state |-> "fulfilled", value |-> FALSE]

\* The value each well-formed body text denotes.
C3_Denotes(text) ==
    IF text = ContactText
       THEN [contact |-> [primaryContactId |-> 1, emails |-> <<"a@x.com">>,
                          phoneNumbers |-> <<"123">>,
                          secondaryContactIds |-> <<>>]]
       ELSE [status |-> "ok"]

\* C3: an identifyContact call answered with any status in 200..299 reads the
\* body, and when the body is JSON the call resolves to exactly the parsed
\* body, whatever its shape.
C3_IdentifyResolvesParsedBody ==
    \A i \in IdentifyCalls :
        (Done(i) /\ calls[i].fetched.kind = "response"
                 /\ Is2xx(calls[i].fetched.status)) =>
            /\ calls[i].body \in BodyTexts
            /\ calls[i].body \in {ContactText, OtherText} =>
                  calls[i].outcome = [state |-> "fulfilled",
                                      value |-> C3_Denotes(calls[i].body)]

\* A call answered 204 with JSON that is no ContactResponse resolved to it.
C3_Witness ==
    \E i \in IdentifyCalls :
        /\ calls[i].fetched.status = 204
        /\ calls[i].body = OtherText
        /\ calls[i].outcome = [state |-> "fulfilled", value |-> [status |-> "ok"]]

\* C4: an identifyContact call answered with a status outside 200..299 has
\* rejected with an Error naming that status, without reading the body.
C4_IdentifyRejectsNon2xx ==
    \A i \in IdentifyCalls :
        (calls[i].fetched.kind = "response" /\ ~Is2xx(calls[i].fetched.status)) =>
            /\ Done(i)
            /\ calls[i].body = NoBody
            /\ calls[i].outcome =
                  [state |-> "rejected",
                   reason |-> [name |-> "Error",
                               message |-> "HTTP error! status: "
                                              \o ToString(calls[i].fetched.status)]]

\* A call answered 400 rejected with "HTTP error! status: 400".
C4_Witness ==
    \E i \in IdentifyCalls :
        /\ calls[i].fetched.status = 400
        /\ calls[i].outcome.state = "rejected"
        /\ calls[i].outcome.reason.message = "HTTP error! status: 400"

\* C5: an identifyContact call whose fetch rejected, or whose 2xx body is not
\* JSON, has rejected with the very error the transport raised; it made one
\* fetch only.
C5_IdentifyPropagatesCause ==
    \A i \in IdentifyCalls :
        /\ calls[i].fetches = 1
        /\ calls[i].fetched.kind = "rejected" =>
              /\ Done(i)
              /\ calls[i].outcome = [state |-> "rejected",
                                     reason |-> calls[i].fetched.error]
        /\ calls[i].body = MalformedText =>
              /\ Done(i)
              /\ calls[i].outcome =
                    [state |-> "rejected",
                     reason |-> [name |-> "SyntaxError",
                                 message |-> "Unexpected token <"]]

\* One call rejected with fetch's TypeError, one with json()'s SyntaxError.
C5_Witness ==
    \E i, j \in IdentifyCalls :
        /\ calls[i].fetched.kind = "rejected"
        /\ calls[i].outcome.state = "rejected"
        /\ calls[i].outcome.reason.name = "TypeError"
        /\ calls[j].body = MalformedText
        /\ calls[j].outcome.state = "rejected"
        /\ calls[j].outcome.reason.name = "SyntaxError"

\* The JSON text of each request.
C6_Body(data) ==
    CASE data = [email |-> Undefined, phoneNumber |-> Undefined] -> "{}"
      [] data = [email |-> "a@x.com", phoneNumber |-> Undefined] ->
            "{\"email\":\"a@x.com\"}"
      [] data = [email |-> Undefined, phoneNumber |-> "123"] ->
            "{\"phoneNumber\":\"123\"}"
      [] data = [email |-> "a@x.com", phoneNumber |-> "123"] ->
            "{\"email\":\"a@x.com\",\"phoneNumber\":\"123\"}"

\* C6: every identifyContact(data) call, whichever fields data has, has sent
\* one POST to <base>/identify whose body is the JSON text of data with the
\* undefined fields left out, and has not settled before the transport
\* answered.
C6_IdentifySendsInputAsGiven ==
    \A i \in IdentifyCalls :
        /\ calls[i].data \in IdentifyRequest
        /\ calls[i].fetches = 1
        /\ calls[i].request.method = "POST"
        /\ calls[i].request.url = "https://aryan-bitespeed.onrender.com/api/identify"
        /\ calls[i].request.contentType = "application/json"
        /\ calls[i].request.body = C6_Body(calls[i].data)
        /\ calls[i].fetched.kind = "none" => calls[i].outcome = Pending

\* A request with neither field and one with phoneNumber only are in flight.
C6_Witness ==
    \E i, j \in IdentifyCalls :
        /\ calls[i].data = [email |-> Undefined, phoneNumber |-> Undefined]
        /\ calls[i].pc = "fetch" /\ calls[i].request.body = "{}"
        /\ calls[j].data = [email |-> Undefined, phoneNumber |-> "123"]
        /\ calls[j].pc = "fetch"
        /\ calls[j].request.body = "{\"phoneNumber\":\"123\"}"

\* A call's outcome is a function of the answer to its own request.
C7_Determined ==
    \A i, j \in 1..Len(calls) :
        (/\ calls[i].op = calls[j].op
         /\ Done(i) /\ Done(j)
         /\ calls[i].fetched = calls[j].fetched
         /\ calls[i].body = calls[j].body) =>
            calls[i].outcome = calls[j].outcome

\* Every call in flight can be answered now, whatever the other calls do.
C7_NotBlocked ==
    \A i \in 1..Len(calls) :
        /\ calls[i].pc = "fetch" =>
              \A r \in FetchResults : ENABLED FetchSettles(i, r)
        /\ calls[i].pc = "json" =>
              \A text \in BodyTexts : ENABLED JsonSettles(i, text)

\* A step changes at most one call, one still in flight, and drops none.
C7_Step ==
    /\ Len(calls') >= Len(calls)
    /\ \A i \in 1..Len(calls) :
          calls'[i] # calls[i] =>
             /\ calls[i].pc # "done"
             /\ \A j \in 1..Len(calls) \ {i} : calls'[j] = calls[j]

\* C7: concurrent checkHealth and identifyContact calls are independent under
\* every interleaving: each one's outcome is determined by the answer to its
\* own request, none is blocked by another, and a step of one call changes
\* nothing of another, settled or in flight.
C7_CallsIndependent ==
    [](C7_Determined /\ C7_NotBlocked) /\ [][C7_Step]_vars

\* The second call has settled while the first, made before it, is in flight.
C7_Witness ==
    /\ Len(calls) = 2
    /\ calls[1].op = "identifyContact" /\ calls[1].pc = "fetch"
    /\ calls[2].op = "checkHealth" /\ Done(2)
    /\ calls[2].settledBefore = {}

PageIdentifyInFlight ==
    \E i \in IdentifyCalls : calls[i].caller = "page" /\ ~Done(i)

C9_NonEmpty(v) == v \notin {Undefined, ""}

\* Every identifyContact call of the page carries an email or a phone number.
C9_SentOnlyNonEmpty ==
    \A i \in IdentifyCalls :
        calls[i].caller = "page" =>
            C9_NonEmpty(calls[i].data.email)
               \/ C9_NonEmpty(calls[i].data.phoneNumber)

\* A submission with both fields empty or absent.
C9_EmptySubmit ==
    (Submit /\ ~C9_NonEmpty(form.email) /\ ~C9_NonEmpty(form.phoneNumber)) =>
        UNCHANGED <<calls, isLoading, response>>

\* C9: the page calls identifyContact only with an email or a phone number
\* that is not empty; a submission with both fields empty or absent sends no
\* request and leaves isLoading and the displayed response as they were.
C9_PageEnforcesOneField ==
    []C9_SentOnlyNonEmpty /\ [][C9_EmptySubmit]_vars

\* An empty form was submitted and refused: no call has ever been made.
C9_Witness ==
    /\ errors
    /\ form = [email |-> "", phoneNumber |-> Undefined]
    /\ calls = <<>> /\ lastSettled = NoCall
    /\ ~isLoading /\ response = Null

\* isLoading is true exactly while a call of onSubmit is in flight.
C10_Loading == isLoading <=> PageIdentifyInFlight

\* The step in which onSubmit's call settles.
C10_Settle ==
    (PageIdentifyInFlight /\ ~PageIdentifyInFlight') =>
        /\ lastSettled'.op = "identifyContact"
        /\ ~isLoading'
        /\ response' = IF lastSettled'.outcome.state = "fulfilled"
                          THEN lastSettled'.outcome.value
                          ELSE Null

\* C10: for every sequence of submits, Clear presses and answers, isLoading
\* is true whenever a call of onSubmit is in flight and false once it has
\* settled, and when it settles the displayed response is its result after a
\* success and null after a failure.
C10_LoadingTracksInFlight ==
    []C10_Loading /\ [][C10_Settle]_vars

\* A call of onSubmit has succeeded and its result is displayed.
C10_Witness ==
    /\ ~isLoading
    /\ lastSettled.op = "identifyContact"
    /\ lastSettled.outcome.state = "fulfilled"
    /\ response = lastSettled.outcome.value
    /\ toast = "Contact identified"

(* --------------------------- specifications ---------------------------- *)

\* The client under any caller.
NextClient ==
    \/ CallCheckHealth
    \/ CallIdentifyContact
    \/ Transport

SpecClient == Init /\ [][NextClient]_vars

\* The page and the client under it.
Next ==
    \/ performHealthCheck
    \/ TypeEmail
    \/ TypePhone
    \/ Submit
    \/ handleClear
    \/ Transport

Spec == Init /\ [][Next]_vars

====
